---- MODULE Spec2Model ----
(***************************************************************************)
(* A model of scraper.py: the gofile link scraper.  Text is a sequence of  *)
(* tokens; every token is a literal chunk of characters ("http", "gofile", *)
(* "io") or a single character, so that the regular expression and the     *)
(* string operations of the source act on it as they act on the string.    *)
(***************************************************************************)
EXTENDS Integers, Sequences, FiniteSets, TLC

(***************************************************************************)
(* Text and the link extractor                                             *)
(***************************************************************************)

\* The character class [0-9A-Za-z] of GOFILE_REGEX, on tokens.
AlnumTokens == {"http", "s", "d", "gofile", "io", "A", "b", "7"}

IsAlnum(tok) == tok \in AlnumTokens

\* The code point that decides a comparison of two tokens: that of the
\* token's first character (Python compares str by code point).
Rank(tok) ==
  CASE tok = " " -> 32
    [] tok = "." -> 46
    [] tok = "/" -> 47
    [] tok = "7" -> 55
    [] tok = ":" -> 58
    [] tok = "A" -> 65
    [] tok = "\\" -> 92
    [] tok = "b" -> 98
    [] tok = "d" -> 100
    [] tok = "gofile" -> 103
    [] tok = "http" -> 104
    [] tok = "io" -> 105
    [] tok = "s" -> 115

\* a < b for two strings (lexicographic, a proper prefix is smaller)
RECURSIVE StrLess(_, _)
StrLess(a, b) ==
  IF Len(b) = 0 THEN FALSE
  ELSE IF Len(a) = 0 THEN TRUE
  ELSE IF a[1] = b[1] THEN StrLess(Tail(a), Tail(b))
  ELSE Rank(a[1]) < Rank(b[1])

\* a slip: the candidates are taken in descending order
RECURSIVE sorted_Descending(_)
sorted_Descending(S) ==
  IF S = {} THEN <<>>
  ELSE LET m == CHOOSE x \in S : \A y \in S \ {x} : StrLess(y, x)
       IN <<m>> \o sorted_Descending(S \ {m})

\* sorted(urls): the ascending list of a finite set of strings
RECURSIVE sorted(_)
sorted(S) ==
  IF S = {} THEN <<>>
  ELSE LET m == CHOOSE x \in S : \A y \in S \ {x} : StrLess(x, y)
       IN <<m>> \o sorted(S \ {m})

\* text.replace("\\/", "/")
RECURSIVE ReplaceEscapedSlash(_)
ReplaceEscapedSlash(t) ==
  IF Len(t) = 0 THEN <<>>
  ELSE IF Len(t) >= 2 /\ t[1] = "\\" /\ t[2] = "/"
       THEN <<"/">> \o ReplaceEscapedSlash(SubSeq(t, 3, Len(t)))
       ELSE <<t[1]>> \o ReplaceEscapedSlash(Tail(t))

\* the literal pat stands in t at position i
HasAt(t, i, pat) ==
  /\ i + Len(pat) - 1 <= Len(t)
  /\ SubSeq(t, i, i + Len(pat) - 1) = pat

HttpsScheme == <<"http", "s", ":", "/", "/">>
HttpScheme == <<"http", ":", "/", "/">>
HostPath == <<"gofile", ".", "io", "/", "d", "/">>

\* (?:https?://)? at position i: the position after the scheme, 0 if none
SchemeEnd(t, i) ==
  IF HasAt(t, i, HttpsScheme) THEN i + Len(HttpsScheme)
  ELSE IF HasAt(t, i, HttpScheme) THEN i + Len(HttpScheme)
  ELSE 0

\* [0-9A-Za-z]+ is greedy: the last position of the run that starts at j
RECURSIVE IdRunEnd(_, _)
IdRunEnd(t, j) ==
  IF j + 1 <= Len(t) /\ IsAlnum(t[j + 1]) THEN IdRunEnd(t, j + 1) ELSE j

\* gofile\.io/d/[0-9A-Za-z]+ at position i: the last position of the match,
\* 0 if there is none
HostMatchEnd(t, i) ==
  IF /\ HasAt(t, i, HostPath)
     /\ i + Len(HostPath) <= Len(t)
     /\ IsAlnum(t[i + Len(HostPath)])
  THEN IdRunEnd(t, i + Len(HostPath))
  ELSE 0

\* GOFILE_REGEX at position i: the optional scheme is tried first
GOFILE_REGEX(t, i) ==
  LET s == SchemeEnd(t, i)
  IN IF s # 0 /\ HostMatchEnd(t, s) # 0 THEN HostMatchEnd(t, s)
     ELSE HostMatchEnd(t, i)

\* GOFILE_REGEX.findall: leftmost matches, not overlapping
RECURSIVE findall(_, _)
findall(t, i) ==
  IF i > Len(t) THEN {}
  ELSE LET e == GOFILE_REGEX(t, i)
       IN IF e # 0 THEN {SubSeq(t, i, e)} \cup findall(t, e + 1)
          ELSE findall(t, i + 1)

\* u.startswith("http")
StartsWithHttp(u) == Len(u) >= 1 /\ u[1] = "http"

normalize_gofile_urls_from_text(text) ==
  LET normalized_text == ReplaceEscapedSlash(text)
      raw_urls == findall(normalized_text, 1)
  IN {IF ~StartsWithHttp(u) THEN <<"http", "s", ":", "/", "/">> \o u ELSE u :
        u \in raw_urls}


(***************************************************************************)
(* Configuration and constants                                             *)
(***************************************************************************)

\* config/sources.json: the configured Nitter sources, in order
sources == <<"src1", "src2">>

\* The RSS-Bridge instances, tried from the top.  The source lists one; the
\* model lists two so that a fallback has somewhere to go.
RSS_BRIDGE_BASES == <<"bridge01", "bridge02">>

\* Scaled down from 50 (pages of a Nitter search)
MAX_NITTER_PAGES == 2

\* Scaled down from 40 (probes of one run)
MAX_GOFILE_CHECKS_PER_RUN == 2

\* Runs of main that the model follows, one after the other
MaxRuns == 2

\* Seconds the clock of the model may reach
MaxClock == 2

GOFILE_DEAD_PATTERNS ==
  << "This content does not exist",
     "The content you are looking for could not be found",
     "No items to display",
     "This content is password protected" >>

GOFILE_BLOCK_PATTERN ==
  "refreshAppdataAccountsAndSync getAccountActive Failed to fetch"

(***************************************************************************)
(* The environment: what feeds, pages and the storage may hold             *)
(***************************************************************************)

\* one link as it may stand in a text: with or without a scheme, its
\* slashes plain or escaped as JSON escapes them
Slash(esc) == IF esc THEN <<"\\", "/">> ELSE <<"/">>

LinkText(scheme, esc, id) ==
  (CASE scheme = "none" -> <<>>
     [] scheme = "http" -> <<"http", ":">> \o Slash(esc) \o Slash(esc)
     [] scheme = "https" -> <<"http", "s", ":">> \o Slash(esc) \o Slash(esc))
  \o <<"gofile", ".", "io">> \o Slash(esc) \o <<"d">> \o Slash(esc) \o id

\* The bodies a feed or a listing page may return in a run
Bodies ==
  { <<" ">>,
    LinkText("https", FALSE, <<"A">>),
    LinkText("none", FALSE, <<"b">>) \o <<" ">> \o LinkText("http", TRUE, <<"A">>) }

\* One pass of the page loop of the listing: whether page.content() returned,
\* the HTML it returned, and what became of "Load more" (no such link, the
\* click went through, or the click raised)
ListingPages ==
  { [readable |-> FALSE, body |-> <<>>, more |-> "none"] }
  \cup [readable : {TRUE}, body : Bodies, more : {"none", "clicked", "failed"}]

\* Every URL a body of the model yields
AllUrls == UNION {normalize_gofile_urls_from_text(b) : b \in Bodies}

\* A rendered gofile page: whether navigation succeeded, whether the body
\* text could be read, and the text as the list of the phrases it holds
PlainPhrase == "Download"

ProbePages ==
  { [goto_ok |-> FALSE, readable |-> TRUE, text |-> <<>>],
    [goto_ok |-> TRUE, readable |-> FALSE, text |-> <<>>],
    [goto_ok |-> TRUE, readable |-> TRUE, text |-> <<PlainPhrase>>],
    [goto_ok |-> TRUE, readable |-> TRUE, text |-> <<GOFILE_DEAD_PATTERNS[1]>>],
    [goto_ok |-> TRUE, readable |-> TRUE, text |-> <<GOFILE_BLOCK_PATTERN>>],
    [goto_ok |-> TRUE, readable |-> TRUE,
     text |-> <<GOFILE_DEAD_PATTERNS[4], GOFILE_BLOCK_PATTERN>>] }

\* data/seen_urls.json: absent; text that is no JSON ("corrupt"); bytes that
\* are no UTF-8 ("undecodable"); JSON that is no list, such as null or a
\* number ("scalar"); or a JSON list of strings
Ledger(kind, urls) == [kind |-> kind, urls |-> urls]

InitLedgers ==
  { Ledger("absent", {}), Ledger("corrupt", {}),
    Ledger("undecodable", {}), Ledger("scalar", {}),
    Ledger("list", {HttpsScheme \o HostPath \o <<"A">>}) }

HeaderRow == <<"timestamp", "url", "source">>


(***************************************************************************)
(* The functions main calls                                                *)
(***************************************************************************)

\* pattern in text
Contains(text, pattern) == \E i \in DOMAIN text : text[i] = pattern

\* a slip: the text of the page is read whether or not the page loaded
check_gofile_status_ReadsAnyway(page) ==
  IF ~page.readable THEN "dead"
  ELSE IF Contains(page.text, GOFILE_BLOCK_PATTERN) THEN "blocked"
  ELSE IF \E k \in DOMAIN GOFILE_DEAD_PATTERNS :
            Contains(page.text, GOFILE_DEAD_PATTERNS[k]) THEN "dead"
  ELSE "alive"

\* a slip: the dead phrases are looked for before the block phrase
check_gofile_status_DeadFirst(page) ==
  IF ~page.goto_ok THEN "dead"
  ELSE IF ~page.readable THEN "dead"
  ELSE IF \E k \in DOMAIN GOFILE_DEAD_PATTERNS :
            Contains(page.text, GOFILE_DEAD_PATTERNS[k]) THEN "dead"
  ELSE IF Contains(page.text, GOFILE_BLOCK_PATTERN) THEN "blocked"
  ELSE "alive"

check_gofile_status(page) ==
  IF ~page.goto_ok THEN "dead"
  ELSE IF ~page.readable THEN "dead"
  ELSE IF Contains(page.text, GOFILE_BLOCK_PATTERN) THEN "blocked"
  ELSE IF \E k \in DOMAIN GOFILE_DEAD_PATTERNS :
            Contains(page.text, GOFILE_DEAD_PATTERNS[k]) THEN "dead"
  ELSE "alive"

\* load_seen_urls raises: the except clause names json.JSONDecodeError only,
\* so the UnicodeDecodeError of the read and the TypeError of set(urls) leave
\* the function
load_seen_urls_raises(file) == file.kind \in {"undecodable", "scalar"}

\* the set load_seen_urls returns when it returns
load_seen_urls(file) ==
  IF file.kind = "list" THEN file.urls ELSE {}

\* the storage load_seen_urls leaves behind: it creates an empty list when
\* there is no file
StorageAfterLoad(file) ==
  IF file.kind = "absent" THEN Ledger("list", {}) ELSE file

\* the storage save_seen_urls(seen) leaves behind
save_seen_urls(seen) == Ledger("list", seen)

\* a slip: the last row is taken for the next one
next_row_LastRow(current_values) == Len(current_values)

\* next_row = len(current_values) + 1
next_row(current_values) == Len(current_values) + 1

BlankRow == <<"", "", "">>

\* ws.update("A{n}:C{n}", [row_values]) on the values of the worksheet
ws_update(values, n, row_values) ==
  [i \in 1..(IF n > Len(values) THEN n ELSE Len(values)) |->
     IF i = n THEN row_values
     ELSE IF i <= Len(values) THEN values[i] ELSE BlankRow]

\* the worksheet after append_row_to_sheet(gc, gofile_url, source_nitter_url)
\* returned, the clock reading t
append_row_to_sheet(values, t, gofile_url, source_nitter_url) ==
  ws_update(values, next_row(values), <<t, gofile_url, source_nitter_url>>)

\* a slip: the membership test never passes a candidate over
AlreadySeen_Never(url, seen) == FALSE

\* line 384: if url in seen_urls: continue
AlreadySeen(url, seen) == url \in seen

\* a slip: > for >=
BudgetReached_OffByOne(checks) == checks > MAX_GOFILE_CHECKS_PER_RUN

\* lines 387 and 417: checks_done >= MAX_GOFILE_CHECKS_PER_RUN
BudgetReached(checks) == checks >= MAX_GOFILE_CHECKS_PER_RUN

\* a slip: only a block ends the source loop; the counter is looked at
\* inside the candidate loop alone
StopSources_BlockedOnly(blocked, checks) == blocked

\* a slip: the source loop goes on after a block
StopSources_BudgetOnly(blocked, checks) == checks >= MAX_GOFILE_CHECKS_PER_RUN

\* line 417: the source loop breaks
StopSources(blocked, checks) == blocked \/ BudgetReached(checks)


\* a slip: only a dead URL enters the Seen Set
SeenAfterVerdict_DeadOnly(seen, url, status, appended) ==
  IF status = "dead" THEN seen \cup {url} ELSE seen

\* a slip: a dead link is probed and left out of the Seen Set
SeenAfterVerdict_DeliveredOnly(seen, url, status, appended) ==
  IF status = "alive" /\ appended THEN seen \cup {url} ELSE seen

\* a slip: a blocked URL enters the Seen Set like a dead one
SeenAfterVerdict_AlsoBlocked(seen, url, status, appended) ==
  IF status = "dead" \/ status = "blocked" THEN seen \cup {url}
  ELSE IF status = "alive" /\ appended THEN seen \cup {url}
  ELSE seen

\* a slip: an alive URL enters the Seen Set whether or not it was delivered
SeenAfterVerdict_AnyAlive(seen, url, status, appended) ==
  IF status = "dead" \/ status = "alive" THEN seen \cup {url} ELSE seen

\* lines 401-415: the Seen Set after a verdict (and, for alive, a delivery)
SeenAfterVerdict(seen, url, status, appended) ==
  IF status = "dead" THEN seen \cup {url}
  ELSE IF status = "alive" /\ appended THEN seen \cup {url}
  ELSE seen

\* a slip: new_seen is set for every probe that did not block
NewSeenAfterVerdict_AnyVerdict(flag, status, appended) ==
  IF status # "blocked" THEN TRUE ELSE flag

\* a slip: a dead URL does not set new_seen
NewSeenAfterVerdict_DeliveredOnly(flag, status, appended) ==
  IF status = "alive" /\ appended THEN TRUE ELSE flag

\* lines 404 and 412: new_seen after a verdict
NewSeenAfterVerdict(flag, status, appended) ==
  IF status = "dead" \/ (status = "alive" /\ appended) THEN TRUE ELSE flag

\* line 413: processed after a verdict
ProcessedAfterVerdict(n, status, appended) ==
  IF status = "alive" /\ appended THEN n + 1 ELSE n

\* a slip: the ledger is saved in every run
ShouldSave_Always(flag) == TRUE

\* line 422: if new_seen:
ShouldSave(flag) == flag

\* a slip: a mirror is skipped after a failure
MirrorAfterFailure_Skip(i) == i + 2

\* lines 149-152: the mirror tried after a failure on mirror i
MirrorAfterFailure(i) == i + 1


(***************************************************************************)
(* State                                                                   *)
(***************************************************************************)

VARIABLES
  ledger,            \* data/seen_urls.json
  sheet,             \* the rows of the worksheet (ws.get_all_values())
  now,               \* datetime.utcnow(), in seconds; Tick of SinkSpec moves
                     \* it, no decision of main reads it
  pc,                \* where main stands
  runNo,             \* runs of main started so far
  seen_urls, new_seen, processed, checks_done, blocked_detected,
  src_index,         \* position of src in sources
  base_index,        \* position of base in RSS_BRIDGE_BASES
  rss_urls, direct_urls, page_index,
  todo,              \* what is left of sorted(urls)
  loaded,            \* history: what load_seen_urls returned in this run
  log,               \* history: the probes of this run, in order
  everSeen,          \* history: every URL that was in seen_urls, in any run
  saveCalls,         \* history: calls of save_seen_urls in this run
  tried,             \* history: mirrors tried by the current feed collection
  refused,           \* history: where the budget check stopped the run
  yielded,           \* history: every URL the sources yielded in this run
  x_text, x_urls, x_done,   \* the link extractor on its own: input, output
  c_page, c_status, c_done, \* the classifier on its own: input, output
  d_loads, d_listing, \* the direct collection on its own: whether the search
                      \* page loads, and what each page of the listing does
  sheet0, writes     \* the sink on its own: first rows, appends made

counters ==
  << seen_urls, new_seen, processed, checks_done, blocked_detected >>

collecting == << base_index, rss_urls, direct_urls, page_index, tried >>

history == << loaded, log, everSeen, saveCalls, refused, yielded >>

mainVars == << pc, runNo, src_index, todo, counters, collecting, history >>

extractVars == << x_text, x_urls, x_done >>

classifyVars == << c_page, c_status, c_done >>

sinkVars == << sheet0, writes >>

pagingVars == << d_loads, d_listing >>

aside == << extractVars, classifyVars, pagingVars, sinkVars >>

vars == << mainVars, ledger, sheet, now, aside >>

NoUrl == <<>>

MainIdle ==
  /\ pc = "idle"
  /\ runNo = 0
  /\ seen_urls = {} /\ new_seen = FALSE /\ processed = 0
  /\ checks_done = 0 /\ blocked_detected = FALSE
  /\ src_index = 0 /\ base_index = 0
  /\ rss_urls = {} /\ direct_urls = {} /\ page_index = 0
  /\ todo = <<>>
  /\ loaded = {} /\ log = <<>> /\ everSeen = {}
  /\ saveCalls = 0 /\ tried = <<>> /\ refused = <<>> /\ yielded = {}

ExtractIdle == x_text = <<>> /\ x_urls = {} /\ x_done = FALSE

ClassifyIdle ==
  /\ c_page = [goto_ok |-> FALSE, readable |-> FALSE, text |-> <<>>]
  /\ c_status = "none"
  /\ c_done = FALSE

PagingIdle == d_loads = FALSE /\ d_listing = <<>>

SinkIdle == sheet0 = <<>> /\ writes = <<>>

Init ==
  /\ MainIdle
  /\ ledger \in InitLedgers
  /\ sheet = <<HeaderRow>>
  /\ now = 0
  /\ ExtractIdle /\ ClassifyIdle /\ PagingIdle /\ SinkIdle

(***************************************************************************)
(* main                                                                    *)
(***************************************************************************)

src == sources[src_index]

\* lines 341-367: load the sources and the ledger, reset the counters, enter
\* the source loop
StartRun ==
  /\ pc \in {"idle", "crashed"}
  /\ runNo < MaxRuns
  /\ ~load_seen_urls_raises(ledger)
  /\ runNo' = runNo + 1
  /\ seen_urls' = load_seen_urls(ledger)
  /\ loaded' = load_seen_urls(ledger)
  /\ everSeen' = everSeen \cup load_seen_urls(ledger)
  /\ ledger' = StorageAfterLoad(ledger)
  /\ new_seen' = FALSE /\ processed' = 0
  /\ checks_done' = 0 /\ blocked_detected' = FALSE
  /\ src_index' = 1 /\ base_index' = 1
  /\ rss_urls' = {} /\ direct_urls' = {} /\ page_index' = 0
  /\ todo' = <<>>
  /\ log' = <<>>
  /\ saveCalls' = 0 /\ tried' = <<>> /\ refused' = <<>> /\ yielded' = {}
  /\ pc' = "rss"
  /\ UNCHANGED << sheet, now, aside >>

\* lines 341-342: load_seen_urls raises and nothing in main catches it: the
\* run ends before its first source
StartRunRaised ==
  /\ pc \in {"idle", "crashed"}
  /\ runNo < MaxRuns
  /\ load_seen_urls_raises(ledger)
  /\ runNo' = runNo + 1
  /\ seen_urls' = {} /\ loaded' = {}
  /\ new_seen' = FALSE /\ processed' = 0
  /\ checks_done' = 0 /\ blocked_detected' = FALSE
  /\ src_index' = 0 /\ base_index' = 0
  /\ rss_urls' = {} /\ direct_urls' = {} /\ page_index' = 0
  /\ todo' = <<>>
  /\ log' = <<>>
  /\ saveCalls' = 0 /\ tried' = <<>> /\ refused' = <<>> /\ yielded' = {}
  /\ pc' = "crashed"
  /\ UNCHANGED << everSeen, ledger, sheet, now, aside >>

\* lines 142-152 and 159-163: the mirror fails; the next one is tried, and
\* when none is left the collection returns the empty set
RssFailed ==
  /\ pc = "rss"
  /\ base_index \in DOMAIN RSS_BRIDGE_BASES
  /\ tried' = Append(tried, [base |-> base_index, ok |-> FALSE, body |-> <<>>])
  /\ IF MirrorAfterFailure(base_index) \in DOMAIN RSS_BRIDGE_BASES
     THEN /\ base_index' = MirrorAfterFailure(base_index)
          /\ UNCHANGED << rss_urls, pc >>
     ELSE /\ base_index' = 0
          /\ rss_urls' = {}
          /\ pc' = "direct"
  /\ UNCHANGED << runNo, src_index, todo, counters, direct_urls, page_index,
                  history, ledger, sheet, now, aside >>

\* lines 142-148 and 155-157: the mirror answers; its links are the result
RssSucceeded ==
  /\ pc = "rss"
  /\ base_index \in DOMAIN RSS_BRIDGE_BASES
  /\ \E body \in Bodies :
       /\ tried' = Append(tried, [base |-> base_index, ok |-> TRUE, body |-> body])
       /\ rss_urls' = normalize_gofile_urls_from_text(body)
  /\ base_index' = 0
  /\ pc' = "direct"
  /\ UNCHANGED << runNo, src_index, todo, counters, direct_urls, page_index,
                  history, ledger, sheet, now, aside >>

\* a slip: the result of the listing replaces the result of the feed
CandidateUrls_DirectOnly(rss, direct) == direct

\* lines 377-379: urls = set(); urls |= rss_urls; urls |= direct_urls
CandidateUrls(rss, direct) == rss \cup direct

\* lines 255 and 376-383: the direct collection returns; both results are
\* united and sorted
Collected(direct) ==
  /\ direct_urls' = direct
  /\ page_index' = 0
  /\ todo' = sorted(CandidateUrls(rss_urls, direct))
  /\ yielded' = yielded \cup CandidateUrls(rss_urls, direct)
  /\ pc' = "loop"

\* lines 219-230: collect_gofile_urls_from_nitter_direct opens the search
\* page, which loads or not
DirectGotoOn(loads) ==
  /\ pc = "direct"
  /\ tried' = <<>>
  /\ IF ~loads
     THEN Collected({})
     ELSE /\ direct_urls' = {}
          /\ page_index' = 0
          /\ pc' = "page"
          /\ UNCHANGED << todo, yielded >>
  /\ UNCHANGED << runNo, src_index, counters, base_index, rss_urls,
                  loaded, log, everSeen, saveCalls, refused,
                  ledger, sheet, now, aside >>

DirectGoto == \E loads \in BOOLEAN : DirectGotoOn(loads)

\* a slip: the links of a page replace the links of the pages before it
AccumulateUrls_Overwrite(urls, found) == found

\* line 237: urls |= found
AccumulateUrls(urls, found) == urls \cup found

\* lines 232-255: one pass of the page loop, the page of the listing
\* behaving as listing does
DirectPageOn(listing) ==
  /\ pc = "page"
  /\ page_index < MAX_NITTER_PAGES
  /\ IF ~listing.readable
     THEN \* page.content() raises
          Collected(direct_urls)
     ELSE LET urls == AccumulateUrls(direct_urls,
                        normalize_gofile_urls_from_text(listing.body))
          IN IF listing.more = "clicked" /\ page_index + 1 < MAX_NITTER_PAGES
             THEN /\ page_index' = page_index + 1
                  /\ direct_urls' = urls
                  /\ UNCHANGED << todo, yielded, pc >>
             ELSE \* no "Load more", the click raises, or the last pass
                  Collected(urls)
  /\ UNCHANGED << runNo, src_index, counters, base_index, rss_urls, tried,
                  loaded, log, everSeen, saveCalls, refused,
                  ledger, sheet, now, aside >>

DirectPage == \E listing \in ListingPages : DirectPageOn(listing)

url == Head(todo)

\* lines 383-385: a candidate that is in seen_urls is passed over
SkipSeen ==
  /\ pc = "loop"
  /\ todo # <<>>
  /\ AlreadySeen(url, seen_urls)
  /\ todo' = Tail(todo)
  /\ UNCHANGED << pc, runNo, src_index, counters, collecting, history,
                  ledger, sheet, now, aside >>

\* lines 387-390: the budget is spent, the candidate loop breaks
BudgetStop ==
  /\ pc = "loop"
  /\ todo # <<>>
  /\ ~AlreadySeen(url, seen_urls)
  /\ BudgetReached(checks_done)
  /\ blocked_detected' = FALSE
  /\ refused' = <<[url |-> url, at |-> Len(log)]>>
  /\ pc' = "after"
  /\ UNCHANGED << runNo, src_index, todo, seen_urls, new_seen, processed,
                  checks_done, collecting, loaded, log, everSeen, saveCalls,
                  yielded, ledger, sheet, now, aside >>

\* lines 392-415: the probe of one candidate, the share page behaving as
\* page does, and what follows from its verdict
ProbeOn(page) ==
  /\ pc = "loop"
  /\ todo # <<>>
  /\ ~AlreadySeen(url, seen_urls)
  /\ ~BudgetReached(checks_done)
  /\ \E delivery \in BOOLEAN :
       LET status == check_gofile_status(page)
           appended == status = "alive" /\ delivery
       IN /\ status # "alive" => delivery
          /\ checks_done' = checks_done + 1
          /\ log' = Append(log, [url |-> url, src |-> src, status |-> status,
                                 append |-> IF status # "alive" THEN "none"
                                            ELSE IF delivery THEN "ok"
                                            ELSE "failed"])
          /\ blocked_detected' = IF status = "blocked" THEN TRUE
                                 ELSE blocked_detected
          /\ sheet' = IF appended
                      THEN append_row_to_sheet(sheet, now, url, src)
                      ELSE sheet
          /\ seen_urls' = SeenAfterVerdict(seen_urls, url, status, appended)
          /\ new_seen' = NewSeenAfterVerdict(new_seen, status, appended)
          /\ processed' = ProcessedAfterVerdict(processed, status, appended)
          /\ everSeen' = everSeen \cup seen_urls'
          /\ IF status = "blocked"
             THEN pc' = "after" /\ UNCHANGED todo
             ELSE pc' = "loop" /\ todo' = Tail(todo)
  /\ UNCHANGED << runNo, src_index, collecting, loaded, saveCalls, refused,
                  yielded, ledger, now, aside >>

Probe == \E page \in ProbePages : ProbeOn(page)

\* line 383: sorted(urls) is used up
LoopDone ==
  /\ pc = "loop"
  /\ todo = <<>>
  /\ pc' = "after"
  /\ UNCHANGED << runNo, src_index, todo, counters, collecting, history,
                  ledger, sheet, now, aside >>

\* lines 367 and 417-418: break out of the source loop, or go to the next src
NextSource ==
  /\ pc = "after"
  /\ IF StopSources(blocked_detected, checks_done) \/ src_index = Len(sources)
     THEN pc' = "exit" /\ UNCHANGED << src_index, base_index >>
     ELSE /\ src_index' = src_index + 1
          /\ base_index' = 1
          /\ pc' = "rss"
  /\ UNCHANGED << runNo, todo, counters, rss_urls, direct_urls, page_index,
                  tried, history, ledger, sheet, now, aside >>

\* lines 420-428: close the browser, save the ledger if it changed, return
Exit ==
  /\ pc = "exit"
  /\ IF ShouldSave(new_seen)
     THEN ledger' = save_seen_urls(seen_urls) /\ saveCalls' = saveCalls + 1
     ELSE UNCHANGED << ledger, saveCalls >>
  /\ pc' = "idle"
  /\ UNCHANGED << runNo, src_index, todo, counters, collecting,
                  loaded, log, everSeen, refused, yielded, sheet, now, aside >>

Next ==
  \/ StartRun
  \/ StartRunRaised
  \/ RssFailed
  \/ RssSucceeded
  \/ DirectGoto
  \/ DirectPage
  \/ SkipSeen
  \/ BudgetStop
  \/ Probe
  \/ LoopDone
  \/ NextSource
  \/ Exit

Spec == Init /\ [][Next]_vars


\* main runs to its end: every loop of it is bounded and every wait has a
\* timeout
FairSpec == Spec /\ WF_vars(Next)

(***************************************************************************)
(* The link extractor on its own                                           *)
(***************************************************************************)

\* Links in one input text
MaxLinks == 2

ExtractIds == { <<"A">>, <<"b", "7">> }

Fragments ==
  { LinkText(scheme, esc, id) :
      scheme \in {"none", "http", "https"}, esc \in BOOLEAN, id \in ExtractIds }

Separators == { <<>>, <<" ">> }

\* the texts that hold exactly n links
RECURSIVE TextsOf(_)
TextsOf(n) ==
  IF n = 1 THEN Fragments
  ELSE { t \o sep \o f : t \in TextsOf(n - 1), sep \in Separators, f \in Fragments }

ExtractInputs == UNION { TextsOf(n) : n \in 1..MaxLinks }

ExtractInit ==
  /\ MainIdle /\ ClassifyIdle /\ PagingIdle /\ SinkIdle
  /\ ledger = Ledger("absent", {})
  /\ sheet = <<HeaderRow>>
  /\ now = 0
  /\ x_text \in ExtractInputs
  /\ x_urls = {}
  /\ x_done = FALSE

Extract ==
  /\ ~x_done
  /\ x_urls' = normalize_gofile_urls_from_text(x_text)
  /\ x_done' = TRUE
  /\ UNCHANGED << x_text, mainVars, ledger, sheet, now, classifyVars, sinkVars,
                  pagingVars >>

ExtractNext == Extract

ExtractSpec == ExtractInit /\ [][ExtractNext]_vars

(***************************************************************************)
(* The classifier on its own                                               *)
(***************************************************************************)

\* Phrases in one page text
MaxPhrases == 2

Phrases ==
  {PlainPhrase, GOFILE_BLOCK_PATTERN}
    \cup {GOFILE_DEAD_PATTERNS[k] : k \in DOMAIN GOFILE_DEAD_PATTERNS}

PageTexts == UNION { [1..n -> Phrases] : n \in 0..MaxPhrases }

ClassifyInputs ==
  [goto_ok : BOOLEAN, readable : BOOLEAN, text : PageTexts]

\* main in front of the first probe of a run: the storage was absent, the
\* first mirror gave the first source one link and the listing did not load
MainAtProbe ==
  /\ pc = "loop"
  /\ runNo = 1
  /\ seen_urls = {} /\ new_seen = FALSE /\ processed = 0
  /\ checks_done = 0 /\ blocked_detected = FALSE
  /\ src_index = 1 /\ base_index = 0
  /\ rss_urls = {HttpsScheme \o HostPath \o <<"A">>}
  /\ direct_urls = {} /\ page_index = 0
  /\ todo = <<HttpsScheme \o HostPath \o <<"A">>>>
  /\ loaded = {} /\ log = <<>> /\ everSeen = {}
  /\ saveCalls = 0 /\ tried = <<>> /\ refused = <<>>
  /\ yielded = {HttpsScheme \o HostPath \o <<"A">>}

ClassifyInit ==
  /\ MainAtProbe /\ ExtractIdle /\ PagingIdle /\ SinkIdle
  /\ ledger = Ledger("list", {})
  /\ sheet = <<HeaderRow>>
  /\ now = 0
  /\ c_page \in ClassifyInputs
  /\ c_status = "none"
  /\ c_done = FALSE

Classify ==
  /\ ~c_done
  /\ c_status' = check_gofile_status(c_page)
  /\ c_done' = TRUE
  /\ UNCHANGED << c_page, mainVars, ledger, sheet, now, extractVars, sinkVars,
                  pagingVars >>

\* lines 392-415 of main around the call: the verdict on c_page is handled
ProbeClassified == c_done /\ ProbeOn(c_page)

ClassifyNext == Classify \/ ProbeClassified

ClassifySpec == ClassifyInit /\ [][ClassifyNext]_vars

(***************************************************************************)
(* The direct collection on its own                                        *)
(***************************************************************************)

\* main in front of the direct collection of its first source: the storage
\* was absent and the first mirror gave one link
MainAtDirect ==
  /\ pc = "direct"
  /\ runNo = 1
  /\ seen_urls = {} /\ new_seen = FALSE /\ processed = 0
  /\ checks_done = 0 /\ blocked_detected = FALSE
  /\ src_index = 1 /\ base_index = 0
  /\ rss_urls = {HttpsScheme \o HostPath \o <<"A">>}
  /\ direct_urls = {} /\ page_index = 0
  /\ todo = <<>>
  /\ loaded = {} /\ log = <<>> /\ everSeen = {}
  /\ saveCalls = 0
  /\ tried = <<[base |-> 1, ok |-> TRUE,
                body |-> LinkText("https", FALSE, <<"A">>)]>>
  /\ refused = <<>>
  /\ yielded = {}

PagingInit ==
  /\ MainAtDirect /\ ExtractIdle /\ ClassifyIdle /\ SinkIdle
  /\ ledger = Ledger("list", {})
  /\ sheet = <<HeaderRow>>
  /\ now = 0
  /\ d_loads \in BOOLEAN
  /\ d_listing \in [1..MAX_NITTER_PAGES -> ListingPages]

PagingGoto == DirectGotoOn(d_loads)

PagingPage == pc = "page" /\ DirectPageOn(d_listing[page_index + 1])

PagingNext == PagingGoto \/ PagingPage

PagingSpec == PagingInit /\ [][PagingNext]_vars

(***************************************************************************)
(* The sink on its own                                                     *)
(***************************************************************************)

\* Appends the sink is followed for
MaxAppends == 2

\* what the worksheet may hold before the first append of the model
InitSheets ==
  { <<>>,
    <<HeaderRow>>,
    <<HeaderRow, <<0, HttpsScheme \o HostPath \o <<"7">>, "src1">> >>,
    <<HeaderRow, BlankRow, <<0, HttpsScheme \o HostPath \o <<"7">>, "src1">> >> }

SinkInit ==
  /\ MainIdle /\ ExtractIdle /\ ClassifyIdle /\ PagingIdle
  /\ ledger = Ledger("absent", {})
  /\ sheet \in InitSheets
  /\ sheet0 = sheet
  /\ writes = <<>>
  /\ now = 0

\* datetime.utcnow() moves on
Tick ==
  /\ now < MaxClock
  /\ now' = now + 1
  /\ UNCHANGED << sheet, sheet0, writes, mainVars, ledger, extractVars, classifyVars,
                  pagingVars >>

\* lines 316-333: append_row_to_sheet returns
SinkAppend ==
  /\ Len(writes) < MaxAppends
  /\ \E u \in AllUrls, s \in {sources[k] : k \in DOMAIN sources} :
       /\ sheet' = append_row_to_sheet(sheet, now, u, s)
       /\ writes' = Append(writes, [t |-> now, url |-> u, src |-> s])
  /\ UNCHANGED << now, sheet0, mainVars, ledger, extractVars, classifyVars,
                  pagingVars >>

SinkNext == Tick \/ SinkAppend

SinkSpec == SinkInit /\ [][SinkNext]_vars


(***************************************************************************)
(* Properties                                                              *)
(***************************************************************************)

Last(q) == q[Len(q)]

\* the step is a probe: check_gofile_status was called on the new last entry
Probed == Len(log') = Len(log) + 1

\* the step wrote a row to the sheet
Delivered == sheet' # sheet

Urls(q) == {q[i].url : i \in DOMAIN q}

NoBlockedVerdict == \A i \in DOMAIN log : log[i].status # "blocked"

RunExited == pc = "idle" /\ runNo >= 1

\* C1 (dedup invariant): a URL that was in the Seen Set at any earlier moment,
\* loaded from storage or added in this run or in an earlier run whose ledger
\* this run loaded, is not probed and no row is written for it.
DedupInvariant ==
  [][ /\ Probed => Last(log').url \notin everSeen
      /\ Delivered => Last(sheet')[2] \notin everSeen ]_vars

\* C1 witness: the candidate loop of the second source reaches a URL that the
\* first source of the same run put into the Seen Set.
DedupWitness ==
  /\ pc = "loop" /\ todo # <<>>
  /\ src_index = 2
  /\ url \in seen_urls \ loaded
  /\ url \in Urls(log)

\* C2 (block containment): a probe that returned blocked is the last probe of
\* its run, the run is on its way out, and the URL is neither in the Seen Set
\* nor in what the storage holds.
BlockContainment ==
  \A i \in DOMAIN log :
    log[i].status = "blocked" =>
      /\ i = Len(log)
      /\ log[i].append = "none"
      /\ blocked_detected
      /\ pc \in {"after", "exit", "idle"}
      /\ log[i].url \notin seen_urls
      /\ log[i].url \notin load_seen_urls(ledger)

\* C2 witness: a run has ended whose second probe was blocked, after its
\* first probe had put a URL into the Seen Set.
BlockWitness ==
  /\ RunExited
  /\ Len(log) = 2
  /\ log[2].status = "blocked"
  /\ new_seen
  /\ ledger = save_seen_urls(seen_urls)

\* C3 (budget enforcement): a run never probes more than the budget; a run
\* without a blocked verdict that leaves sources or more unseen candidates
\* than the budget behind has probed exactly the budget; and the candidate the
\* budget check stopped at is not probed then or later in the run and is not
\* in the Seen Set.
BudgetEnforcement ==
  /\ Len(log) = checks_done
  /\ checks_done <= MAX_GOFILE_CHECKS_PER_RUN
  /\ (RunExited /\ NoBlockedVerdict
        /\ Cardinality(yielded \ loaded) > MAX_GOFILE_CHECKS_PER_RUN)
       => Len(log) = MAX_GOFILE_CHECKS_PER_RUN
  /\ (RunExited /\ NoBlockedVerdict /\ src_index < Len(sources))
       => Len(log) = MAX_GOFILE_CHECKS_PER_RUN
  /\ refused # <<>> =>
       /\ pc \in {"after", "exit", "idle"}
       /\ checks_done = MAX_GOFILE_CHECKS_PER_RUN
       /\ refused[1].at = Len(log)
       /\ refused[1].url \notin seen_urls
       /\ ~blocked_detected

\* C3 witness: a run has ended at the budget check with more unseen
\* candidates than the budget, one of its probes having failed to deliver.
BudgetWitness ==
  /\ RunExited
  /\ NoBlockedVerdict
  /\ Cardinality(yielded \ loaded) > MAX_GOFILE_CHECKS_PER_RUN
  /\ refused # <<>>
  /\ \E i \in DOMAIN log : log[i].append = "failed"

\* C4 (delivery failure): the step in which the probe is alive and the append
\* fails changes neither the Seen Set, nor new_seen, nor processed, nor the
\* sheet, nor the storage, and the candidate loop goes on with the next
\* candidate.
DeliveryFailureHandling ==
  [][ (Probed /\ Last(log').append = "failed") =>
        /\ seen_urls' = seen_urls
        /\ new_seen' = new_seen
        /\ processed' = processed
        /\ sheet' = sheet
        /\ ledger' = ledger
        /\ pc' = "loop"
        /\ todo' = Tail(todo) ]_vars

\* C4 witness: after a failed delivery the loop has probed the next
\* candidate, and the URL that failed is not in the Seen Set.
DeliveryFailureWitness ==
  /\ Len(log) = 2
  /\ log[1].append = "failed"
  /\ log[1].src = log[2].src
  /\ log[1].url \notin seen_urls

\* a run that has exited with a Seen Set other than the loaded one has called
\* save_seen_urls once, and the storage holds the whole Seen Set
SavedAtExit ==
  (RunExited /\ seen_urls # loaded) =>
    /\ saveCalls = 1
    /\ ledger = save_seen_urls(seen_urls)

Idempotence ==
  (RunExited /\ yielded \subseteq loaded) =>
    /\ log = <<>>
    /\ checks_done = 0
    /\ processed = 0
    /\ saveCalls = 0
    /\ seen_urls = loaded
    /\ load_seen_urls(ledger) = loaded

\* C6 witness: a second run has exited whose sources yielded links, all of
\* them in the loaded Seen Set.
IdempotenceWitness ==
  /\ RunExited
  /\ runNo = 2
  /\ yielded # {}
  /\ yielded \subseteq loaded

\* C7 (mirror fallback order): the mirrors are tried in list order, each once;
\* only a failure leads to the next mirror; the collection returns at the
\* first success with the links of that body, and with the empty set when
\* every mirror has failed.
MirrorFallbackOrder ==
  /\ \A k \in DOMAIN tried : tried[k].base = k
  /\ \A k \in 1..(Len(tried) - 1) : ~tried[k].ok
  /\ pc = "rss" =>
       /\ base_index = Len(tried) + 1
       /\ \A k \in DOMAIN tried : ~tried[k].ok
  /\ pc = "direct" =>
       /\ tried # <<>>
       /\ Last(tried).ok =>
            rss_urls = normalize_gofile_urls_from_text(Last(tried).body)
       /\ ~Last(tried).ok =>
            /\ rss_urls = {}
            /\ Len(tried) = Len(RSS_BRIDGE_BASES)

\* C7 witness: the first mirror failed, the second answered with a body
\* without links, and the collection returned the empty set.
MirrorFallbackWitness ==
  /\ pc = "direct"
  /\ Len(tried) = 2
  /\ ~tried[1].ok
  /\ tried[2].ok
  /\ tried[2].body = <<" ">>
  /\ rss_urls = {}

HasBlockPhrase(text) == \E i \in DOMAIN text : text[i] = GOFILE_BLOCK_PATTERN

HasDeadPhrase(text) ==
  \E i \in DOMAIN text, k \in DOMAIN GOFILE_DEAD_PATTERNS :
    text[i] = GOFILE_DEAD_PATTERNS[k]

\* C8 (classification precedence): for a page whose text could be read, the
\* verdict is blocked exactly when the text holds the block phrase, dead
\* exactly when it holds a dead phrase and not the block phrase, and alive
\* exactly when it holds neither.
ClassificationPrecedence ==
  (c_done /\ c_page.goto_ok /\ c_page.readable) =>
    /\ c_status = "blocked" <=> HasBlockPhrase(c_page.text)
    /\ c_status = "dead" <=>
         (HasDeadPhrase(c_page.text) /\ ~HasBlockPhrase(c_page.text))
    /\ c_status = "alive" <=>
         (~HasDeadPhrase(c_page.text) /\ ~HasBlockPhrase(c_page.text))

\* C8 witness: a page with the password phrase and the block phrase was
\* classified blocked.
ClassificationWitness ==
  /\ c_done
  /\ c_page.goto_ok /\ c_page.readable
  /\ c_page.text = <<GOFILE_DEAD_PATTERNS[4], GOFILE_BLOCK_PATTERN>>
  /\ c_status = "blocked"

\* C9 (extraction normalization): every URL the extractor returns starts
\* with https://gofile.io/d/, whatever form the link had in the text.
ExtractionForcesHttps ==
  x_done => \A u \in x_urls : HasAt(u, 1, HttpsScheme \o HostPath)

\* C10 (delivery row placement): the k-th append since the first state wrote
\* its three fields at row (rows before it) + 1, no row that was there has
\* changed, and the timestamps of the appended rows do not decrease.
DeliveryRowPlacement ==
  /\ Len(sheet) = Len(sheet0) + Len(writes)
  /\ \A i \in DOMAIN sheet0 : sheet[i] = sheet0[i]
  /\ \A k \in DOMAIN writes :
       sheet[Len(sheet0) + k] = <<writes[k].t, writes[k].url, writes[k].src>>
  /\ \A k \in 1..(Len(writes) - 1) : writes[k].t <= writes[k + 1].t

\* C10 witness: two appends, a second apart, below a sheet that had a blank
\* row in it.
DeliveryRowWitness ==
  /\ Len(sheet0) = 3
  /\ Len(writes) = 2
  /\ writes[1].t < writes[2].t
  /\ Len(sheet) = 5


\* C11: load_seen_urls never fails: a run that starts gets past the load of
\* the ledger whatever the storage holds, with the empty set when the
\* storage is absent, corrupt or unparseable, and with the stored members
\* when it is a list
LedgerLoadNeverFails ==
  /\ pc # "crashed"
  /\ (pc = "rss" /\ src_index = 1 /\ tried = <<>>) =>
       /\ ledger.kind # "absent"
       /\ loaded = (IF ledger.kind = "list" THEN ledger.urls ELSE {})
       /\ seen_urls = loaded


\* the index of the last probe of u in this run
LastProbe(u) ==
  CHOOSE i \in DOMAIN log :
    log[i].url = u /\ \A j \in DOMAIN log : log[j].url = u => j <= i

\* C12 (Seen-Set meaning invariant): every URL that is in the in-memory Seen
\* Set and was not in the loaded set has been probed in this run, and its
\* last verdict was dead, or alive with a delivery that succeeded, whose row
\* is then on the sheet; a URL whose last verdict was blocked, or whose
\* delivery failed, is not in the set
SeenSetMeaning ==
  \A u \in seen_urls \ loaded :
    /\ u \in Urls(log)
    /\ LET e == log[LastProbe(u)]
       IN \/ e.status = "dead"
          \/ /\ e.status = "alive" /\ e.append = "ok"
             /\ \E n \in DOMAIN sheet :
                  n > 1 /\ sheet[n][2] = u /\ sheet[n][3] = e.src

\* a URL whose delivery failed stayed out of the set, and entered it when a
\* later probe of it in the same run ended in a delivery that succeeded
SeenSetMeaningWitness ==
  /\ Len(log) = 2
  /\ log[1].status = "alive" /\ log[1].append = "failed"
  /\ log[2].status = "alive" /\ log[2].append = "ok"
  /\ log[2].url = log[1].url
  /\ seen_urls \ loaded = {log[2].url}


\* the run is past the point where the source loop must end
StopReached ==
  /\ pc \notin {"idle", "crashed"}
  /\ ~NoBlockedVerdict \/ Len(log) >= MAX_GOFILE_CHECKS_PER_RUN

\* C13 (early stop skips later sources): once a probe of the run has
\* returned blocked, or the number of probes of the run has reached the
\* budget (also when that happened on the last candidate of a source and no
\* candidate was refused), no step of the run goes to another source, starts
\* a collection of candidates, or issues a probe
EarlyStopSkipsLaterSources ==
  [][ StopReached =>
        /\ src_index' = src_index
        /\ pc' \notin {"rss", "direct", "page"}
        /\ ~Probed ]_vars

\* the budget was reached exactly on the last candidate of the first source,
\* no candidate was refused, and the run ended without a look at the second
\* source
EarlyStopWitness ==
  /\ RunExited
  /\ NoBlockedVerdict
  /\ Len(log) = MAX_GOFILE_CHECKS_PER_RUN
  /\ refused = <<>>
  /\ todo = <<>>
  /\ src_index = 1 /\ src_index < Len(sources)


\* the share page did not load, or its text could not be read
ProbeFailed == ~c_page.goto_ok \/ ~c_page.readable

LastPass(k) ==
  \/ k = MAX_NITTER_PAGES
  \/ ~d_listing[k].readable
  \/ d_listing[k].more # "clicked"

\* the passes the page loop makes over the listing
Passes == 1..(CHOOSE k \in 1..MAX_NITTER_PAGES :
                LastPass(k) /\ \A j \in 1..(k - 1) : ~LastPass(j))

\* the links of the pages read in the first n passes
LinksOfPasses(n) ==
  UNION { normalize_gofile_urls_from_text(d_listing[k].body) :
            k \in {j \in 1..n : d_listing[j].readable} }

\* C15 (bounded accumulating pagination): the direct collection makes at
\* most MAX_NITTER_PAGES passes, each of which returns or starts the next
\* pass with a set that lost no link; between the passes the set holds
\* the links of every page read so far; the set returned is empty when the
\* search page did not load, and otherwise the union of the links of every
\* page read up to the pass where page.content() raised, "Load more" was
\* missing, the click raised, or the last allowed pass was made
BoundedPagination ==
  /\ [](pc = "page" =>
          /\ page_index < MAX_NITTER_PAGES
          /\ page_index + 1 \in Passes
          /\ direct_urls = LinksOfPasses(page_index))
  /\ [](pc = "loop" =>
          /\ ~d_loads => direct_urls = {}
          /\ d_loads =>
               direct_urls = LinksOfPasses(Cardinality(Passes)))
  /\ [][ pc = "page" =>
           \/ pc' = "loop"
           \/ /\ pc' = "page"
              /\ page_index' = page_index + 1
              /\ direct_urls \subseteq direct_urls' ]_vars

\* the first page was read and "Load more" clicked, then page.content()
\* raised on the second pass: the links of the first page were returned
BoundedPaginationWitness ==
  /\ pc = "loop"
  /\ d_loads
  /\ d_listing[1].readable /\ d_listing[1].more = "clicked"
  /\ ~d_listing[2].readable
  /\ direct_urls = normalize_gofile_urls_from_text(d_listing[1].body)
  /\ direct_urls # {}


\* every mirror was tried for the source and failed
EveryMirrorFailed ==
  /\ Len(tried) = Len(RSS_BRIDGE_BASES)
  /\ \A i \in DOMAIN tried : ~tried[i].ok

\* C16 (strategy results are unioned, failures contained): when every mirror
\* failed the feed strategy has returned the empty set and the run stands at
\* the direct collection of the same source; the step that ends the
\* collections of a source leaves the result of the feed as it was and makes
\* the candidates of the source exactly the members of the two results, each
\* once
StrategiesUnioned ==
  /\ [](EveryMirrorFailed => (pc = "direct" /\ rss_urls = {}))
  /\ [][ (pc \in {"direct", "page"} /\ pc' = "loop") =>
           /\ rss_urls' = rss_urls
           /\ src_index' = src_index
           /\ {todo'[i] : i \in DOMAIN todo'} = rss_urls \cup direct_urls'
           /\ Len(todo') = Cardinality(rss_urls \cup direct_urls') ]_vars

\* the first source had a candidate probed; the run is at its second source,
\* where every mirror has failed, and stands at the direct collection
StrategiesUnionedWitness ==
  /\ src_index = 2
  /\ EveryMirrorFailed
  /\ pc = "direct"
  /\ rss_urls = {}
  /\ Len(log) = 1
  /\ log[1].src = sources[1]


\* C17 (changed-flag accuracy): in every state new_seen is true exactly when
\* the in-memory Seen Set differs from the set the run loaded;
\* save_seen_urls is not called before the run ends, is called at its end
\* exactly when the membership changed, at most once per run, and the set it
\* saves is the in-memory set, which holds every loaded member
ChangedFlagAccuracy ==
  /\ new_seen <=> seen_urls # loaded
  /\ loaded \subseteq seen_urls
  /\ saveCalls <= 1
  /\ pc \notin {"idle", "crashed"} => saveCalls = 0
  /\ RunExited => (saveCalls = 1 <=> seen_urls # loaded)
  /\ saveCalls = 1 =>
       /\ ledger = Ledger("list", seen_urls)
       /\ loaded \subseteq ledger.urls

\* a run probed a URL, its delivery failed, and the run ended with new_seen
\* false and without a save, the storage as the load had left it
ChangedFlagWitness ==
  /\ RunExited
  /\ log # <<>>
  /\ \A i \in DOMAIN log : log[i].append = "failed"
  /\ ~new_seen
  /\ saveCalls = 0
  /\ seen_urls = loaded


\* the position of a source in sources
SourcePosition(s) == CHOOSE k \in DOMAIN sources : sources[k] = s

\* C18 (probe order): of two probes of a run the earlier one is for the
\* same or an earlier source; when both are for one source the earlier one
\* is for the smaller URL string, so the probes of a source are in strictly
\* ascending order; while candidates of a source are waiting, every probe of
\* that source so far is for a smaller URL than any of them
ProbeOrder ==
  /\ \A i, j \in DOMAIN log :
       i < j =>
         /\ SourcePosition(log[i].src) <= SourcePosition(log[j].src)
         /\ log[i].src = log[j].src => StrLess(log[i].url, log[j].url)
  /\ \A i \in DOMAIN log : SourcePosition(log[i].src) <= src_index
  /\ pc = "loop" =>
       \A i \in DOMAIN log, k \in DOMAIN todo :
         log[i].src = src => StrLess(log[i].url, todo[k])

\* both probes the budget allows went to the first source, in ascending
\* order, and its third candidate was refused
ProbeOrderWitness ==
  /\ Len(log) = 2
  /\ log[1].src = sources[1] /\ log[2].src = sources[1]
  /\ log[1].url # log[2].url
  /\ refused # <<>>
  /\ StrLess(log[2].url, refused[1].url)


\* the rows main has written: every row of the sheet below the header
DeliveredRows == 2..Len(sheet)

\* C19 (at-most-once delivery): no two rows written to the sheet, in one run
\* or in consecutive runs that each load the ledger the run before left,
\* carry the same URL; a URL that has a row is in the Seen Set from the
\* step of its delivery on, and in the storage once that run has ended
AtMostOnceDelivery ==
  /\ \A m, n \in DeliveredRows : m # n => sheet[m][2] # sheet[n][2]
  /\ \A n \in DeliveredRows :
       \/ sheet[n][2] \in seen_urls
       \/ sheet[n][2] \in load_seen_urls(ledger)
  /\ pc = "idle" =>
       \A n \in DeliveredRows : sheet[n][2] \in load_seen_urls(ledger)

\* a URL delivered by the first run was yielded again in the second run,
\* which has ended; a URL delivered in the second run was yielded by both
\* of its sources
AtMostOnceDeliveryWitness ==
  /\ RunExited
  /\ runNo = 2
  /\ \E n \in DeliveredRows : sheet[n][2] \in (yielded \cap loaded)
  /\ \E i \in DOMAIN log : log[i].append = "ok"
  /\ src_index = 2


\* C20 as stated (at-most-once probing per run): no URL is passed to
\* check_gofile_status more than once within a run, whatever the sources
\* yield and whatever the verdicts and the deliveries are, also when a URL is
\* yielded by more than one source and its delivery failed the first time
AtMostOneProbePerRun ==
  \A i, j \in DOMAIN log : i # j => log[i].url # log[j].url

\* C20, amended: within a run a URL is probed at most once for each source,
\* and a URL is probed again for a later source only when every earlier
\* probe of it in the run was alive and its delivery failed; a URL whose
\* probe was dead, or alive and delivered, is never probed again in the run
ProbedAgainOnlyAfterFailedDelivery ==
  \A i, j \in DOMAIN log :
    (i < j /\ log[i].url = log[j].url) =>
      /\ log[i].status = "alive"
      /\ log[i].append = "failed"
      /\ log[i].src # log[j].src
      /\ log[i].url \notin loaded

\* the delivery of a URL failed for the first source, and the second source
\* yielded it and had it probed again
ProbedAgainWitness ==
  /\ Len(log) = 2
  /\ log[1].url = log[2].url
  /\ log[1].src = sources[1] /\ log[2].src = sources[2]
  /\ log[1].append = "failed"

====
